---------------------------- MODULE Spec2Model ----------------------------
(***************************************************************************)
(* A model of the Bill-of-Lading OCR processor, server/ocr/bol_processor.py *)
(* and of its runner, server/ocr/ocr_runner.py.                             *)
(*                                                                          *)
(* Numbers.  Python floats are modelled in fixed point:                     *)
(*   - a confidence (of a line, of a region, average_confidence) is an      *)
(*     integer count of 1/10000: 1.0 is 10000, 90.0 is 900000;              *)
(*   - the running score of _calculate_quality_score is an integer count    *)
(*     of 1/100000, so that average_confidence * 0.4 is exact: a confidence *)
(*     of c/10000 times 0.4 is 4*c/100000; one point is 100000.             *)
(* Text is a sequence of one-character strings.                             *)
(***************************************************************************)
EXTENDS Integers, Sequences, FiniteSets, TLC

VARIABLES
    DEPENDENCIES_AVAILABLE, \* module flag, bol_processor.py:22
    ERROR_MESSAGE,          \* module string (the missing libraries, in import order)
    module_loaded,          \* whether the import of bol_processor succeeded
    processor,              \* the BOLProcessor object: its pp_structure and ocr
    call,                   \* the call in progress or just returned
    history                 \* the processor as constructed, and how the previous
                            \* process_image call on it ended (for the claims only)

vars ==
    <<DEPENDENCIES_AVAILABLE, ERROR_MESSAGE, module_loaded, processor, call, history>>

(***************************************************************************)
(* Bounds of the model.                                                     *)
(***************************************************************************)
\* the most lines of a text handed directly to _extract_bol_fields
MaxFragments == 2
\* the longest full_text handed directly to the scorer
MaxTextLen == 150
\* the largest |average_confidence| handed directly to the scorer (10000.0)
MaxScoreConf == 100000000
\* the most libraries missing at import
MaxMissing == 1
\* the most elements (layout regions plus text lines) of a document
MaxElements == 2

(***************************************************************************)
(* Small helpers.                                                           *)
(***************************************************************************)
Min(a, b) == IF a <= b THEN a ELSE b
Max(a, b) == IF a >= b THEN a ELSE b

\* F applied to the value of v: v is computed once, however often F uses it
With(v, F(_)) == CHOOSE out \in { F(x) : x \in {v} } : TRUE

\* the least and the greatest element of a non-empty set of integers
SetMin(S) == CHOOSE x \in S : \A y \in S : x <= y
SetMax(S) == CHOOSE x \in S : \A y \in S : x >= y

\* the string c repeated n times
Rep(c, n) == [i \in 1..n |-> c]

\* Python's dict.get(key, default) on a dict modelled as a function
Get(d, key, default) == IF key \in DOMAIN d THEN d[key] ELSE default

\* the dict d without the keys in ks
Without(d, ks) == [k \in (DOMAIN d) \ ks |-> d[k]]

\* n / d rounded to the nearest integer, ties to the even one (d > 0)
RoundDiv(n, d) ==
    LET q == n \div d             \* floor
        r == n - d * q            \* 0..d-1
    IN  IF 2 * r < d THEN q
        ELSE IF 2 * r > d THEN q + 1
        ELSE IF q % 2 = 0 THEN q ELSE q + 1

\* a variant of round(x, 3) that cuts the digits off
Round3Truncating(c) == 10 * (c \div 10)

\* Python's round(x, 3) and round(x, 2) of a confidence
Round3(c) == 10 * RoundDiv(c, 10)
Round2(c) == 100 * RoundDiv(c, 100)

\* Python's int() of a score: truncation toward zero, in points
IntOfScore(x) == IF x >= 0 THEN x \div 100000 ELSE -((-x) \div 100000)

\* Python's round() of a score, in points
RoundOfScore(x) == RoundDiv(x, 100000)

(***************************************************************************)
(* Characters and text.                                                     *)
(***************************************************************************)
\* the text of a string literal, as a sequence of one-character strings
Chars(s) == [i \in 1..Len(s) |-> SubSeq(s, i, i)]

SetOf(s) == { SubSeq(s, i, i) : i \in 1..Len(s) }

UpperStr == "ABCDEFGHIJKLMNOPQRSTUVWXYZ"
LowerStr == "abcdefghijklmnopqrstuvwxyz"
Upper == SetOf(UpperStr)
Lower == SetOf(LowerStr)
Letter == Upper \cup Lower
Digit == SetOf("0123456789")
\* \s
Space == {" ", "\n", "\t", "\r"}
\* \w, for \b
WordChar == Letter \cup Digit \cup {"_"}

\* re.IGNORECASE: a letter matches both of its cases
BothCases(c) ==
    IF c \in Upper
    THEN {c, SubSeq(LowerStr, CHOOSE i \in 1..26 : SubSeq(UpperStr, i, i) = c,
                               CHOOSE i \in 1..26 : SubSeq(UpperStr, i, i) = c)}
    ELSE IF c \in Lower
    THEN {c, SubSeq(UpperStr, CHOOSE i \in 1..26 : SubSeq(LowerStr, i, i) = c,
                               CHOOSE i \in 1..26 : SubSeq(LowerStr, i, i) = c)}
    ELSE {c}

\* str.strip(): leading and trailing whitespace removed
RECURSIVE LStrip(_)
LStrip(t) == IF t # <<>> /\ Head(t) \in Space THEN LStrip(Tail(t)) ELSE t

RECURSIVE RStrip(_)
RStrip(t) ==
    IF t # <<>> /\ t[Len(t)] \in Space THEN RStrip(SubSeq(t, 1, Len(t) - 1)) ELSE t

Strip(t) == RStrip(LStrip(t))

(***************************************************************************)
(* Regular expressions: the part of Python's re the patterns use, with the  *)
(* backtracking order of re (alternatives left to right, greedy and lazy    *)
(* repetition), compiled with re.IGNORECASE.  Inf is an absent upper bound. *)
(***************************************************************************)
Inf == -1

ReSet(s) == [t |-> "set", s |-> s]
ReCat(xs) == [t |-> "cat", xs |-> xs]
ReAlt(xs) == [t |-> "alt", xs |-> xs]
ReRep(x, lo, hi) == [t |-> "rep", x |-> x, lo |-> lo, hi |-> hi, greedy |-> TRUE]
ReLazy(x, lo, hi) == [t |-> "rep", x |-> x, lo |-> lo, hi |-> hi, greedy |-> FALSE]
ReStar(x) == ReRep(x, 0, Inf)
RePlus(x) == ReRep(x, 1, Inf)
ReOpt(x) == ReRep(x, 0, 1)
\* ( ... ): the one capturing group of a pattern
ReGroup(x) == ReCat(<<[t |-> "open"], x, [t |-> "close"]>>)
\* $ without re.MULTILINE
ReEnd == [t |-> "end"]
\* \b
ReWordB == [t |-> "wordb"]
\* a literal string, case-insensitively
ReLit(s) == ReCat([i \in 1..Len(s) |-> ReSet(BothCases(SubSeq(s, i, i)))])
\* \s, \d and the character classes of the patterns (case-insensitive)
ReS == ReSet(Space)
ReD == ReSet(Digit)
ReAlnum == ReSet(Letter \cup Digit)
ReNameChar == ReSet(Letter \cup Space \cup {"&", ".", ","})
ReAddrChar == ReSet(Letter \cup Space \cup {","})

NoMatch == [ok |-> FALSE, e |-> 0, g |-> <<0, 0>>]

\* match the nodes k, in sequence, against text from position i on; g is the
\* span of the group so far.  The result is the first match in re's order.
RECURSIVE ReMatch(_, _, _, _)
ReMatch(text0, k0, i0, g0) ==
    \* the arguments are computed once
    With([text |-> text0, k |-> k0, i |-> i0, g |-> g0], LAMBDA arg :
      LET text == arg.text
          k == arg.k
          i == arg.i
          g == arg.g
          n == Head(k)
          r == Tail(k)
      IN  IF k = <<>> THEN [ok |-> TRUE, e |-> i, g |-> g]
          ELSE
            CASE   n.t = "set" ->
                   IF i <= Len(text) /\ text[i] \in n.s
                   THEN ReMatch(text, r, i + 1, g) ELSE NoMatch
              [] n.t = "cat" -> ReMatch(text, n.xs \o r, i, g)
              [] n.t = "alt" ->
                   IF n.xs = <<>> THEN NoMatch
                   ELSE With(ReMatch(text, <<Head(n.xs)>> \o r, i, g),
                             LAMBDA a :
                               IF a.ok THEN a
                               ELSE ReMatch(text, <<ReAlt(Tail(n.xs))>> \o r, i, g))
              [] n.t = "rep" /\ n.x.t = "set" ->
                   \* a repeated character class: of the run of m characters
                   \* of the class at i, re takes the most (greedy) or the
                   \* fewest (lazy) after which the rest of the pattern matches
                   LET limit == IF n.hi = Inf THEN Len(text) - i + 1
                                ELSE Min(n.hi, Len(text) - i + 1)
                       stops == { j \in i..(i + limit - 1) : text[j] \notin n.x.s }
                       m == IF stops = {} THEN limit ELSE SetMin(stops) - i
                   IN  With({ <<c, ReMatch(text, r, i + c, g)>> : c \in n.lo..m },
                            LAMBDA tries :
                              With({ t[1] : t \in { t \in tries : t[2].ok } },
                                   LAMBDA oks :
                                     IF oks = {} THEN NoMatch
                                     ELSE (CHOOSE t \in tries :
                                             t[1] = IF n.greedy THEN SetMax(oks)
                                                    ELSE SetMin(oks))[2]))
              [] n.t = "rep" /\ n.x.t # "set" ->
                   LET less == [n EXCEPT !.lo = IF n.lo > 0 THEN n.lo - 1 ELSE 0,
                                         !.hi = IF n.hi = Inf THEN Inf ELSE n.hi - 1]
                   IN  IF n.lo > 0 THEN ReMatch(text, <<n.x, less>> \o r, i, g)
                       ELSE IF n.hi = 0 THEN ReMatch(text, r, i, g)
                       ELSE IF n.greedy
                       THEN With(ReMatch(text, <<n.x, less>> \o r, i, g),
                                 LAMBDA a : IF a.ok THEN a ELSE ReMatch(text, r, i, g))
                       ELSE With(ReMatch(text, r, i, g),
                                 LAMBDA a :
                                   IF a.ok THEN a
                                   ELSE ReMatch(text, <<n.x, less>> \o r, i, g))
              [] n.t = "open" -> ReMatch(text, r, i, <<i, g[2]>>)
              [] n.t = "close" -> ReMatch(text, r, i, <<g[1], i>>)
              [] n.t = "end" ->
                   IF i = Len(text) + 1 \/ (i = Len(text) /\ text[i] = "\n")
                   THEN ReMatch(text, r, i, g) ELSE NoMatch
              [] n.t = "wordb" ->
                   LET before == i > 1 /\ text[i - 1] \in WordChar
                       after == i <= Len(text) /\ text[i] \in WordChar
                   IN  IF before # after THEN ReMatch(text, r, i, g) ELSE NoMatch)

\* whether a node can match the empty string, and the characters a match of
\* it can start with: re.search need not try the other positions
RECURSIVE ReNullable(_)
ReNullable(n) ==
    CASE n.t = "set" -> FALSE
      [] n.t = "cat" -> \A j \in DOMAIN n.xs : ReNullable(n.xs[j])
      [] n.t = "alt" -> \E j \in DOMAIN n.xs : ReNullable(n.xs[j])
      [] n.t = "rep" -> n.lo = 0 \/ ReNullable(n.x)
      [] OTHER -> TRUE

RECURSIVE ReFirst(_)
ReFirst(n) ==
    CASE n.t = "set" -> n.s
      [] n.t = "cat" ->
           UNION { ReFirst(n.xs[j]) :
                     j \in { j \in DOMAIN n.xs :
                               \A h \in 1..(j - 1) : ReNullable(n.xs[h]) } }
      [] n.t = "alt" -> UNION { ReFirst(n.xs[j]) : j \in DOMAIN n.xs }
      [] n.t = "rep" -> ReFirst(n.x)
      [] OTHER -> {}

\* re.compile(pattern, re.IGNORECASE), for each pattern of a list
ReCompile(patterns) ==
    [j \in DOMAIN patterns |->
        [re |-> patterns[j], nullable |-> ReNullable(patterns[j]),
         first |-> ReFirst(patterns[j])]]

\* re.search(pattern, text, re.IGNORECASE): the match at the leftmost position
\* where the pattern matches
ReSearch(pattern, text) ==
    LET starts == { i \in 1..(Len(text) + 1) :
                      pattern.nullable \/ (i <= Len(text) /\ text[i] \in pattern.first) }
    IN  With({ <<i, ReMatch(text, <<pattern.re>>, i, <<0, 0>>)>> : i \in starts },
             LAMBDA tries :
               With({ t[1] : t \in { t \in tries : t[2].ok } },
                    LAMBDA oks :
                      IF oks = {} THEN NoMatch
                      ELSE (CHOOSE t \in tries : t[1] = SetMin(oks))[2]))

\* match.group(1)
Group1(text, m) == SubSeq(text, m.g[1], m.g[2] - 1)

(***************************************************************************)
(* BOLProcessor._extract_bol_fields                                         *)
(***************************************************************************)
\* [\s#:]* , [\s:]* , \s* , \s+
ReSepHashColon == ReStar(ReSet(Space \cup {"#", ":"}))
ReSepColon == ReStar(ReSet(Space \cup {":"}))
ReS0 == ReStar(ReS)
ReS1 == RePlus(ReS)
\* \d+(?:\.\d+)?
ReNumber == ReCat(<<RePlus(ReD), ReOpt(ReCat(<<ReSet({"."}), RePlus(ReD)>>))>>)
\* \d{1,2}[/-]\d{1,2}[/-]\d{2,4}
ReDate == ReCat(<<ReRep(ReD, 1, 2), ReSet({"/", "-"}), ReRep(ReD, 1, 2),
                  ReSet({"/", "-"}), ReRep(ReD, 2, 4)>>)
\* [A-Z]{2}\s+\d{5}
ReStateZip == ReCat(<<ReRep(ReSet(Letter), 2, 2), ReS1, ReRep(ReD, 5, 5)>>)

bol_patterns == ReCompile(<<
    ReCat(<<ReAlt(<<ReLit("BOL"), ReLit("B/L"),
                    ReCat(<<ReLit("Bill"), ReS1, ReLit("of"), ReS1, ReLit("Lading")>>)>>),
            ReSepHashColon, ReGroup(ReRep(ReAlnum, 4, Inf))>>),
    ReCat(<<ReAlt(<<ReLit("BOL"), ReLit("BL")>>), ReS0, ReOpt(ReSet({"#"})), ReS0,
            ReGroup(ReRep(ReAlnum, 4, Inf))>>),
    ReCat(<<ReLit("Bill"), ReS1, ReLit("of"), ReS1, ReLit("Lading"), ReS1,
            ReAlt(<<ReLit("Number"), ReLit("No"), ReLit("#")>>), ReSepColon,
            ReGroup(ReRep(ReAlnum, 4, Inf))>>),
    ReCat(<<ReWordB, ReLit("BOL"), ReGroup(ReRep(ReAlnum, 6, Inf)), ReWordB>>) >>)

carrier_patterns == ReCompile(<<
    ReCat(<<ReAlt(<<ReLit("Carrier"), ReLit("Shipper")>>), ReSepColon,
            ReGroup(ReLazy(ReNameChar, 1, Inf)),
            ReAlt(<<ReSet({"\n"}), ReEnd, ReStateZip>>)>>),
    ReCat(<<ReAlt(<<ReLit("Transport"), ReLit("Trucking"), ReLit("Express"),
                    ReLit("Logistics")>>), ReSepColon,
            ReGroup(RePlus(ReNameChar))>>),
    ReCat(<<ReLit("MC"), ReStar(ReSet(Space \cup {"#"})), RePlus(ReD), ReS0,
            ReGroup(RePlus(ReNameChar))>>) >>)

\* lbs? , pounds? , kg , kgs?
ReLbs == ReCat(<<ReLit("lb"), ReOpt(ReLit("s"))>>)
RePounds == ReCat(<<ReLit("pound"), ReOpt(ReLit("s"))>>)
ReKgs == ReCat(<<ReLit("kg"), ReOpt(ReLit("s"))>>)

weight_patterns == ReCompile(<<
    ReCat(<<ReAlt(<<ReLit("Weight"), ReLit("Wt")>>), ReSepColon, ReGroup(ReNumber),
            ReS0, ReAlt(<<ReLbs, RePounds, ReLit("kg"), ReKgs>>)>>),
    ReCat(<<ReGroup(ReNumber), ReS0, ReAlt(<<ReLbs, RePounds>>)>>),
    ReCat(<<ReLit("Total"), ReS1, ReLit("Weight"), ReSepColon, ReGroup(ReNumber)>>) >>)

\* Pallets?|Skids? , Pieces?|Pcs? , Count|Qty
RePallets ==
    ReAlt(<<ReCat(<<ReLit("Pallet"), ReOpt(ReLit("s"))>>),
            ReCat(<<ReLit("Skid"), ReOpt(ReLit("s"))>>)>>)
RePieces ==
    ReAlt(<<ReCat(<<ReLit("Piece"), ReOpt(ReLit("s"))>>),
            ReCat(<<ReLit("Pc"), ReOpt(ReLit("s"))>>)>>)

pallet_patterns == ReCompile(<<
    ReCat(<<RePallets, ReSepColon, ReGroup(RePlus(ReD))>>),
    ReCat(<<ReGroup(RePlus(ReD)), ReS0, RePallets>>),
    ReCat(<<RePieces, ReSepColon, ReGroup(RePlus(ReD))>>),
    ReCat(<<ReAlt(<<ReLit("Count"), ReLit("Qty")>>), ReSepColon,
            ReGroup(RePlus(ReD))>>) >>)

date_patterns == ReCompile(<<
    ReCat(<<ReAlt(<<ReLit("Ship"), ReLit("Shipping")>>), ReS1, ReLit("Date"),
            ReSepColon, ReGroup(ReDate)>>),
    ReCat(<<ReAlt(<<ReLit("Delivery"), ReLit("Del")>>), ReS1, ReLit("Date"),
            ReSepColon, ReGroup(ReDate)>>),
    ReCat(<<ReLit("Date"), ReSepColon, ReGroup(ReDate)>>) >>)

\* ([A-Za-z\s,]+,\s*[A-Z]{2}\s+\d{5})
ReAddress ==
    ReGroup(ReCat(<<RePlus(ReAddrChar), ReSet({","}), ReS0,
                    ReRep(ReSet(Letter), 2, 2), ReS1, ReRep(ReD, 5, 5)>>))

address_patterns == ReCompile(<<
    ReCat(<<ReAlt(<<ReLit("From"), ReLit("Origin")>>), ReSepColon, ReAddress>>),
    ReCat(<<ReAlt(<<ReLit("To"), ReLit("Destination"), ReLit("Consignee")>>),
            ReSepColon, ReAddress>>) >>)

\* a variant that stores an empty string when no rule matched
RECURSIVE FirstMatchOrEmpty(_, _)
FirstMatchOrEmpty(patterns, text_content) ==
    IF patterns = <<>> THEN << <<>> >>
    ELSE With(ReSearch(Head(patterns), text_content),
              LAMBDA match :
                IF match.ok THEN <<Group1(text_content, match)>>
                ELSE FirstMatchOrEmpty(Tail(patterns), text_content))

\* for pattern in patterns: match = re.search(...); if match: ...; break
\* The result is <<>> when no pattern matched, else <<group(1)>> of the first
\* pattern, in list order, that matched.
RECURSIVE FirstMatch(_, _)
FirstMatch(patterns, text_content) ==
    IF patterns = <<>> THEN <<>>
    ELSE With(ReSearch(Head(patterns), text_content),
              LAMBDA match :
                IF match.ok THEN <<Group1(text_content, match)>>
                ELSE FirstMatch(Tail(patterns), text_content))

\* a variant of the carrier loop whose length check is inclusive
RECURSIVE FirstCarrierInclusive(_, _)
FirstCarrierInclusive(patterns, text_content) ==
    IF patterns = <<>> THEN <<>>
    ELSE With(ReSearch(Head(patterns), text_content),
              LAMBDA match :
                IF match.ok
                THEN With(Strip(Group1(text_content, match)),
                          LAMBDA carrier_name :
                            IF Len(carrier_name) >= 3 /\ Len(carrier_name) <= 100
                            THEN <<carrier_name>>
                            ELSE FirstCarrierInclusive(Tail(patterns),
                                                       text_content))
                ELSE FirstCarrierInclusive(Tail(patterns), text_content))

\* a variant of the carrier loop that breaks at the first match, whether or
\* not its capture passes the length check
RECURSIVE FirstCarrierBreaks(_, _)
FirstCarrierBreaks(patterns, text_content) ==
    IF patterns = <<>> THEN <<>>
    ELSE With(ReSearch(Head(patterns), text_content),
              LAMBDA match :
                IF match.ok
                THEN With(Strip(Group1(text_content, match)),
                          LAMBDA carrier_name :
                            IF Len(carrier_name) > 3 /\ Len(carrier_name) < 100
                            THEN <<carrier_name>>
                            ELSE <<>>)
                ELSE FirstCarrierBreaks(Tail(patterns), text_content))

\* the carrier loop: a match whose stripped capture fails the length check
\* does not break the loop
RECURSIVE FirstCarrier(_, _)
FirstCarrier(patterns, text_content) ==
    IF patterns = <<>> THEN <<>>
    ELSE With(ReSearch(Head(patterns), text_content),
              LAMBDA match :
                IF match.ok
                THEN With(Strip(Group1(text_content, match)),
                          LAMBDA carrier_name :
                            IF Len(carrier_name) > 3 /\ Len(carrier_name) < 100
                            THEN <<carrier_name>>
                            ELSE FirstCarrier(Tail(patterns), text_content))
                ELSE FirstCarrier(Tail(patterns), text_content))

\* the dict with key set to F of the element of found (none or one)
Entry(key, found, F(_)) ==
    With(found, LAMBDA matches :
      [k \in {key : v \in DOMAIN matches} |-> F(matches[1])])

\* a variant that stores the captured numeral without the " lbs" suffix
ExtractBolFieldsNoSuffix(text) ==
    With(text, LAMBDA text_content :
      Entry("bol_number", FirstMatch(bol_patterns, text_content), Strip)
      @@ Entry("carrier_name", FirstCarrier(carrier_patterns, text_content),
               LAMBDA carrier_name : carrier_name)
      @@ Entry("weight", FirstMatch(weight_patterns, text_content),
               LAMBDA weight_value : weight_value)
      @@ Entry("pallet_count", FirstMatch(pallet_patterns, text_content),
               LAMBDA pallet_count : pallet_count)
      @@ Entry("ship_date", FirstMatch(date_patterns, text_content),
               LAMBDA ship_date : ship_date)
      @@ Entry("from_address",
               FirstMatch(<<address_patterns[1]>>, text_content), Strip)
      @@ Entry("to_address",
               FirstMatch(<<address_patterns[2]>>, text_content), Strip))

ExtractBolFields(text) ==
    With(text, LAMBDA text_content :
      Entry("bol_number", FirstMatch(bol_patterns, text_content), Strip)
      @@ Entry("carrier_name", FirstCarrier(carrier_patterns, text_content),
               LAMBDA carrier_name : carrier_name)
      @@ Entry("weight", FirstMatch(weight_patterns, text_content),
               LAMBDA weight_value : weight_value \o Chars(" lbs"))
      @@ Entry("pallet_count", FirstMatch(pallet_patterns, text_content),
               LAMBDA pallet_count : pallet_count)
      @@ Entry("ship_date", FirstMatch(date_patterns, text_content),
               LAMBDA ship_date : ship_date)
      @@ Entry("from_address",
               FirstMatch(<<address_patterns[1]>>, text_content), Strip)
      @@ Entry("to_address",
               FirstMatch(<<address_patterns[2]>>, text_content), Strip))

(***************************************************************************)
(* BOLProcessor._calculate_quality_score                                    *)
(***************************************************************************)
\* the keys _extract_bol_fields can set
FieldNames == {"bol_number", "carrier_name", "weight", "pallet_count",
               "ship_date", "from_address", "to_address"}

\* field_weights, bol_processor.py:535-541
field_weights == [bol_number |-> 10, carrier_name |-> 8, weight |-> 5,
                  pallet_count |-> 4, ship_date |-> 3]

ConfidenceComponentAbs(average_confidence) ==
    IF average_confidence >= 0 THEN 4 * average_confidence
    ELSE 4 * (-average_confidence)

\* score += average_confidence * 0.4
ConfidenceComponent(average_confidence) == 4 * average_confidence

TextComponentGE(full_text) ==
    IF Len(full_text) >= 100 THEN 30
    ELSE IF Len(full_text) >= 50 THEN 20
    ELSE IF Len(full_text) >= 10 THEN 10
    ELSE 0

\* the if/elif chain on len(full_text)   (points)
TextComponent(full_text) ==
    IF Len(full_text) > 100 THEN 30
    ELSE IF Len(full_text) > 50 THEN 20
    ELSE IF Len(full_text) > 10 THEN 10
    ELSE 0

RECURSIVE SumWeights(_, _)
SumWeights(fields, extracted_fields) ==
    IF fields = {} THEN 0
    ELSE LET field == CHOOSE f \in fields : TRUE
             weight == field_weights[field]
         IN  (IF field \in DOMAIN extracted_fields
                 /\ Len(extracted_fields[field]) > 0
              THEN weight ELSE 0)
             + SumWeights(fields \ {field}, extracted_fields)

RECURSIVE SumWeightsKeyOnly(_, _)
SumWeightsKeyOnly(fields, extracted_fields) ==
    IF fields = {} THEN 0
    ELSE LET field == CHOOSE f \in fields : TRUE
         IN  (IF field \in DOMAIN extracted_fields THEN field_weights[field] ELSE 0)
             + SumWeightsKeyOnly(fields \ {field}, extracted_fields)

FieldComponentKeyOnly(extracted_fields) ==
    SumWeightsKeyOnly(DOMAIN field_weights, extracted_fields)

\* the loop over field_weights.items()   (points)
FieldComponent(extracted_fields) ==
    SumWeights(DOMAIN field_weights, extracted_fields)

FinalScoreUnclamped(score) == IntOfScore(score)

FinalScoreRounded(score) == Min(100, Max(0, RoundOfScore(score)))

\* return min(100, max(0, int(score)))
FinalScore(score) == Min(100, Max(0, IntOfScore(score)))

\* the weighted sum before int() and the clamp
WeightedSum(structured_data, average_confidence) ==
    LET full_text == Get(Get(structured_data, "full_text", <<>>), "text", <<>>)
        extracted_fields == Get(structured_data, "extracted_fields", <<>>)
    IN  ConfidenceComponent(average_confidence)
        + 100000 * TextComponent(full_text)
        + 100000 * FieldComponent(extracted_fields)

CalculateQualityScore(structured_data, average_confidence) ==
    FinalScore(WeightedSum(structured_data, average_confidence))

(***************************************************************************)
(* Module import, bol_processor.py:21-58 and :108.                          *)
(***************************************************************************)
\* the libraries in the order of the try/except ImportError blocks
Dependencies == <<"numpy", "PIL", "cv2", "paddleocr", "pdf2image">>

MissingMessage(d) ==
    CASE d = "numpy" -> "Missing numpy library. "
      [] d = "PIL" -> "Missing PIL/Pillow library. "
      [] d = "cv2" ->
           "Missing OpenCV (cv2) library. This may require system package 'libgl1'. "
      [] d = "paddleocr" -> "Missing PaddleOCR library. "
      [] d = "pdf2image" -> "Missing pdf2image library. "

\* ERROR_MESSAGE after the import blocks up to the i-th
RECURSIVE ErrorMessageUpTo(_, _)
ErrorMessageUpTo(missing, i) ==
    IF i = 0 THEN ""
    ELSE ErrorMessageUpTo(missing, i - 1)
         \o (IF Dependencies[i] \in missing THEN MissingMessage(Dependencies[i])
             ELSE "")

\* the module after its import blocks, given the libraries that are missing.
\* With numpy missing np is None, and the annotation np.ndarray of
\* _preprocess_image (line 108) raises AttributeError while the class body
\* runs: the module is not loaded.
ImportModule(missing) ==
    [DEPENDENCIES_AVAILABLE |-> missing = {},
     ERROR_MESSAGE |-> ErrorMessageUpTo(missing, Len(Dependencies)),
     loaded |-> "numpy" \notin missing]

(***************************************************************************)
(* Exceptions and collaborators.                                            *)
(***************************************************************************)
Exc(type, msg) == [type |-> type, msg |-> msg]

\* classes derived from Exception, which "except Exception" catches
ExceptionClasses ==
    {"ValueError", "TypeError", "AssertionError", "RuntimeError", "error",
     "IndexError", "AttributeError", "ImportError", "MemoryError"}

\* what a collaborator (cv2, pdf2image, PP-Structure, PaddleOCR) may raise:
\* an error with a message, and one without (a bare assert)
CollaboratorErrors ==
    {Exc("RuntimeError", "inference failed"), Exc("AssertionError", "")}

NoFault == Exc("", "")

\* what re.search may raise while the rules of one field are evaluated
\* (it allocates): nothing, or a MemoryError, in the loop of that field
NoSearchFault == [field |-> "", exc |-> NoFault]
SearchFaults ==
    { [field |-> f, exc |-> Exc("MemoryError", "")] :
        f \in {"bol_number", "carrier_name"} }

Raise(e) == [kind |-> "raise", exc |-> e]
Return(v) == [kind |-> "return", value |-> v]
NotCalled == [kind |-> "not_called"]

\* no call in progress
NoCall == [op |-> "none", pc |-> "idle"]

\* time.time() - start_time: the clock is not modelled
Elapsed == "seconds"

(***************************************************************************)
(* BOLProcessor.__init__                                                    *)
(***************************************************************************)
NoProcessor == [constructed |-> FALSE, pp_structure |-> "None", ocr |-> "None"]

\* what the constructors PPStructure(...) and PaddleOCR(...) do
EngineOutcomes == {"ok", "PPStructure raises", "PaddleOCR raises"}

\* a variant whose except clause leaves the engine already constructed
NewProcessorKeepsStructure(engines) ==
    IF ~DEPENDENCIES_AVAILABLE
    THEN [constructed |-> TRUE, pp_structure |-> "None", ocr |-> "None"]
    ELSE IF engines = "ok"
    THEN [constructed |-> TRUE, pp_structure |-> "PPStructure", ocr |-> "PaddleOCR"]
    ELSE IF engines = "PaddleOCR raises"
    THEN [constructed |-> TRUE, pp_structure |-> "PPStructure", ocr |-> "None"]
    ELSE [constructed |-> TRUE, pp_structure |-> "None", ocr |-> "None"]

NewProcessor(engines) ==
    IF ~DEPENDENCIES_AVAILABLE
    THEN [constructed |-> TRUE, pp_structure |-> "None", ocr |-> "None"]
    ELSE IF engines = "ok"
    THEN [constructed |-> TRUE, pp_structure |-> "PPStructure", ocr |-> "PaddleOCR"]
    ELSE [constructed |-> TRUE, pp_structure |-> "None", ocr |-> "None"]

\* no processor constructed yet, no call made on it
NoHistory == [self |-> NoProcessor, previous |-> "none"]

\* how a call ended, as the caller sees it
HowEnded(outcome) ==
    IF outcome.kind = "return" /\ outcome.value.success THEN "success" ELSE "failure"

\* a variant in which a call that fails drops the engines
SelfAfterFailureDropsEngines(self, outcome) ==
    IF HowEnded(outcome) = "success" THEN self
    ELSE [self EXCEPT !.pp_structure = "None", !.ocr = "None"]

\* the object when process_image has returned: the method and the helpers it
\* calls read self.pp_structure and self.ocr and assign no attribute
SelfAfterProcessImage(self, outcome) == self

(***************************************************************************)
(* BOLProcessor._preprocess_image                                           *)
(***************************************************************************)
\* image_data: what it is (a path to a file, a string that is no file,
\* bytes, an array, anything else), whether it is a PDF, how many pages the
\* rasterizer returns for it, and what cv2 / numpy / pdf2image raise on it
Image(type, pdf, pages, fault) ==
    [type |-> type, pdf |-> pdf, pages |-> pages, fault |-> fault]

PreprocessImage(image) ==
    IF image.type \in {"file", "bytes"}
    THEN IF image.fault # NoFault THEN Raise(image.fault)
         ELSE IF image.pdf /\ image.pages = 0
         THEN Raise(Exc("ValueError",
                        IF image.type = "file"
                        THEN "Failed to convert PDF to image"
                        ELSE "Failed to convert PDF bytes to image"))
         ELSE Return("processed")
    ELSE IF image.type = "ndarray"
    THEN IF image.fault # NoFault THEN Raise(image.fault) ELSE Return("processed")
    ELSE Raise(Exc("ValueError", "Unsupported image format"))

(***************************************************************************)
(* BOLProcessor._convert_pp_structure_result                                *)
(***************************************************************************)
\* region_data
RegionData(region) ==
    [type |-> Get(region, "type", ""),
     bbox |-> Get(region, "bbox", <<>>),
     confidence |-> Round3(Get(region, "confidence", 0))]

\* the cells of a table: cell_bbox zipped with cell_contents, "" when short
TableCells(region) ==
    IF "res" \in DOMAIN region
    THEN LET cell_data == Get(region["res"], "cell_bbox", <<>>)
             cell_contents == Get(region["res"], "cell_contents", <<>>)
         IN  [i \in DOMAIN cell_data |->
                [bbox |-> cell_data[i],
                 text |-> IF i <= Len(cell_contents) THEN cell_contents[i] ELSE <<>>]]
    ELSE <<>>

\* table_data; region["bs4"] is what BeautifulSoup makes of region["html"]:
\* rows, or an exception
TableData(region) ==
    LET base == ("html" :> Get(region, "html", "")) @@ ("cells" :> TableCells(region))
                @@ RegionData(region)
    IN  IF "res" \in DOMAIN region /\ "html" \in DOMAIN region
        THEN IF region["bs4"].kind = "return"
             THEN ("data" :> region["bs4"].value) @@ base
             ELSE ("data" :> <<>>) @@ ("parse_error" :> region["bs4"].exc.msg) @@ base
        ELSE base

\* text_block
TextBlock(region) ==
    ("text" :> Get(region, "text", <<>>))
    @@ ("text_lines" :>
          IF "res" \in DOMAIN region
          THEN LET lines == Get(region["res"], "text", <<>>)
               IN  [i \in DOMAIN lines |->
                      [text |-> lines[i][1], confidence |-> Round3(lines[i][2])]]
          ELSE <<>>)
    @@ RegionData(region)

SelectType(result, type) ==
    SelectSeq(result, LAMBDA region : Get(region, "type", "") = type)

\* a variant that lists only tables and text blocks in layout
ConvertPpStructureResultTypedOnly(result) ==
    [layout |-> LET typed == SelectSeq(result, LAMBDA region :
                                 Get(region, "type", "") \in {"table", "text"})
                IN  [i \in DOMAIN typed |-> RegionData(typed[i])],
     tables |-> LET ts == SelectType(result, "table")
                IN  [i \in DOMAIN ts |-> TableData(ts[i])],
     text_blocks |-> LET bs == SelectType(result, "text")
                     IN  [i \in DOMAIN bs |-> TextBlock(bs[i])]]

\* lines 186-280: every region goes to layout, a table also to tables, a
\* text region also to text_blocks
ConvertPpStructureResult(result) ==
    [layout |-> [i \in DOMAIN result |-> RegionData(result[i])],
     tables |-> LET ts == SelectType(result, "table")
                IN  [i \in DOMAIN ts |-> TableData(ts[i])],
     text_blocks |-> LET bs == SelectType(result, "text")
                     IN  [i \in DOMAIN bs |-> TextBlock(bs[i])]]

(***************************************************************************)
(* BOLProcessor.process_image                                               *)
(***************************************************************************)
\* an OCR confidence: a float, or something that is no number (None)
Confidence(c) == [numeric |-> TRUE, value |-> c]
NoConfidence == [numeric |-> FALSE, value |-> 0]

\* a line of ocr_result[0]: [bbox, (text, confidence)] has len 2
Line(bbox, text, confidence) ==
    [len |-> 2, bbox |-> bbox, text |-> text, confidence |-> confidence]
\* a line that is only [bbox]
ShortLine(bbox) ==
    [len |-> 1, bbox |-> bbox, text |-> <<>>, confidence |-> NoConfidence]

\* ocr_result: None, or a list of pages; a page: None, or a list of lines
OcrNone == [is_none |-> TRUE, pages |-> <<>>]
OcrPages(pages) == [is_none |-> FALSE, pages |-> pages]
PageNone == [is_none |-> TRUE, lines |-> <<>>]
Page(lines) == [is_none |-> FALSE, lines |-> lines]

\* "\n".join(texts)
RECURSIVE Join(_)
Join(texts) ==
    IF texts = <<>> THEN <<>>
    ELSE IF Len(texts) = 1 THEN texts[1]
    ELSE texts[1] \o <<"\n">> \o Join(Tail(texts))

RECURSIVE SumConfidence(_)
SumConfidence(lines) ==
    IF lines = <<>> THEN 0
    ELSE lines[1].confidence.value + SumConfidence(Tail(lines))

\* a variant in which a line without a numeric confidence counts as zero
AverageConfidenceCountAll(lines) ==
    IF Len(lines) > 0
    THEN 100 * RoundDiv(SumConfidence(SelectSeq(lines, LAMBDA line :
                                                  line.confidence.numeric)),
                        100 * Len(lines))
    ELSE 0

\* total_confidence and confidence_count of the loop, and line 363:
\* round(total_confidence / confidence_count, 2) if confidence_count > 0 else 0
AverageConfidence(lines) ==
    With(SelectSeq(lines, LAMBDA line : line.confidence.numeric),
         LAMBDA counted :
           IF Len(counted) > 0
           THEN 100 * RoundDiv(SumConfidence(counted), 100 * Len(counted))
           ELSE 0)

\* a variant of the loop without the guard "if ocr_result and len(ocr_result) > 0"
ReadOcrResultUnguarded(ocr_result) ==
    IF ocr_result.is_none
    THEN Raise(Exc("TypeError", "'NoneType' object is not subscriptable"))
    ELSE IF Len(ocr_result.pages) = 0
    THEN Raise(Exc("IndexError", "list index out of range"))
    ELSE IF ocr_result.pages[1].is_none
    THEN Raise(Exc("TypeError", "'NoneType' object is not iterable"))
    ELSE
      With(SelectSeq(ocr_result.pages[1].lines, LAMBDA line : line.len >= 2),
           LAMBDA kept :
          Return(
            [full_text |-> [i \in DOMAIN kept |-> kept[i].text],
             full_text_with_positions |->
                [i \in DOMAIN kept |->
                   [text |-> kept[i].text,
                    bbox |-> kept[i].bbox,
                    confidence |->
                       IF kept[i].confidence.numeric
                       THEN Confidence(Round3(kept[i].confidence.value))
                       ELSE kept[i].confidence]],
             average_confidence |-> AverageConfidence(kept)]))

\* a variant of the loop that skips a line without a numeric confidence
ReadOcrResultNumericOnly(ocr_result) ==
    IF ocr_result.is_none \/ Len(ocr_result.pages) = 0
    THEN Return([full_text |-> <<>>, full_text_with_positions |-> <<>>,
                 average_confidence |-> 0])
    ELSE IF ocr_result.pages[1].is_none
    THEN Raise(Exc("TypeError", "'NoneType' object is not iterable"))
    ELSE
      With(SelectSeq(ocr_result.pages[1].lines,
                     LAMBDA line : line.len >= 2 /\ line.confidence.numeric),
           LAMBDA kept :
          Return(
            [full_text |-> [i \in DOMAIN kept |-> kept[i].text],
             full_text_with_positions |->
                [i \in DOMAIN kept |->
                   [text |-> kept[i].text,
                    bbox |-> kept[i].bbox,
                    confidence |-> Confidence(Round3(kept[i].confidence.value))]],
             average_confidence |-> AverageConfidence(kept)]))

\* lines 337-363: the loop over ocr_result[0] and the average
ReadOcrResult(ocr_result) ==
    IF ocr_result.is_none \/ Len(ocr_result.pages) = 0
    THEN Return([full_text |-> <<>>, full_text_with_positions |-> <<>>,
                 average_confidence |-> 0])
    ELSE IF ocr_result.pages[1].is_none
    THEN Raise(Exc("TypeError", "'NoneType' object is not iterable"))
    ELSE
      With(SelectSeq(ocr_result.pages[1].lines, LAMBDA line : line.len >= 2),
           LAMBDA kept :
          Return(
            [full_text |-> [i \in DOMAIN kept |-> kept[i].text],
             full_text_with_positions |->
                [i \in DOMAIN kept |->
                   [text |-> kept[i].text,
                    bbox |-> kept[i].bbox,
                    confidence |->
                       IF kept[i].confidence.numeric
                       THEN Confidence(Round3(kept[i].confidence.value))
                       ELSE kept[i].confidence]],
             average_confidence |-> AverageConfidence(kept)]))

DependencyErrorResult ==
    [success |-> FALSE,
     error |-> "Missing required dependencies: " \o ERROR_MESSAGE,
     error_type |-> "DependencyError",
     required_libraries |-> <<"numpy", "opencv-python (cv2)", "paddleocr",
                              "Pillow (PIL)", "pdf2image">>,
     system_dependencies |-> <<"libgl1">>,
     processing_time |-> Elapsed]

InitializationErrorResult ==
    [success |-> FALSE,
     error |-> "OCR engine was not initialized properly",
     error_type |-> "InitializationError",
     processing_time |-> Elapsed]

\* the dict returned by the except clause of process_image
ErrorResult(e) ==
    [success |-> FALSE, error |-> e.msg, error_type |-> e.type,
     processing_time |-> Elapsed, traceback |-> "traceback"]

\* the call self._extract_bol_fields(full_text_content): the method has no
\* try/except, so what re.search raises leaves it
ExtractOutcome(text, search_fault) ==
    IF search_fault = NoSearchFault THEN Return(ExtractBolFields(text))
    ELSE Raise(search_fault.exc)

\* the body of the try: lines 319-397.  structure_out and ocr_out are what
\* self.pp_structure(img) and self.ocr(img) do when called, search_fault
\* what re.search does during the extraction.
ProcessImageBody(image_data, structure_out, ocr_out, search_fault) ==
    LET preprocessed_img == PreprocessImage(image_data)
    IN  IF preprocessed_img.kind = "raise" THEN preprocessed_img
        ELSE IF structure_out.kind = "raise" THEN structure_out
        ELSE IF ocr_out.kind = "raise" THEN ocr_out
        ELSE
          With(ReadOcrResult(ocr_out.value), LAMBDA read :
            IF read.kind = "raise" THEN read
            ELSE
              With(("full_text" :>
                      [text |-> Join(read.value.full_text),
                       lines |-> read.value.full_text_with_positions])
                   @@ ConvertPpStructureResult(structure_out.value),
                   LAMBDA with_text :
               With(ExtractOutcome(with_text["full_text"].text, search_fault),
                    LAMBDA extracted_fields :
                IF extracted_fields.kind = "raise" THEN extracted_fields
                ELSE
                With(("extracted_fields" :> extracted_fields.value) @@ with_text,
                     LAMBDA structured_data :
                  Return(
                    [success |-> TRUE,
                     processing_time |-> Elapsed,
                     average_confidence |-> read.value.average_confidence,
                     quality_score |->
                        CalculateQualityScore(structured_data,
                                              read.value.average_confidence),
                     engine_version |-> "PaddleOCR",
                     total_text_lines |-> Len(read.value.full_text),
                     total_tables |-> Len(Get(structured_data, "tables", <<>>)),
                     total_layout_elements |->
                        Len(Get(structured_data, "layout", <<>>))]
                    @@ structured_data)))))

\* a variant whose except clause returns what had been computed so far
ProcessImagePartial(self, image_data, structure_out, ocr_out, search_fault) ==
    IF ~DEPENDENCIES_AVAILABLE THEN Return(DependencyErrorResult)
    ELSE IF self.pp_structure = "None" \/ self.ocr = "None"
    THEN Return(InitializationErrorResult)
    ELSE LET body == ProcessImageBody(image_data, structure_out, ocr_out, search_fault)
         IN  IF body.kind = "return" THEN body
             ELSE IF structure_out.kind = "return"
             THEN Return(ErrorResult(body.exc)
                         @@ ConvertPpStructureResult(structure_out.value))
             ELSE Return(ErrorResult(body.exc))

\* a variant with "except ValueError" in place of "except Exception"
ProcessImageValueErrorOnly(self, image_data, structure_out, ocr_out, search_fault) ==
    IF ~DEPENDENCIES_AVAILABLE THEN Return(DependencyErrorResult)
    ELSE IF self.pp_structure = "None" \/ self.ocr = "None"
    THEN Return(InitializationErrorResult)
    ELSE LET body == ProcessImageBody(image_data, structure_out, ocr_out, search_fault)
         IN  IF body.kind = "raise" /\ body.exc.type = "ValueError"
             THEN Return(ErrorResult(body.exc))
             ELSE body

ProcessImage(self, image_data, structure_out, ocr_out, search_fault) ==
    IF ~DEPENDENCIES_AVAILABLE THEN Return(DependencyErrorResult)
    ELSE IF self.pp_structure = "None" \/ self.ocr = "None"
    THEN Return(InitializationErrorResult)
    ELSE With(ProcessImageBody(image_data, structure_out, ocr_out, search_fault),
              LAMBDA body :
                IF body.kind = "raise" /\ body.exc.type \in ExceptionClasses
                THEN Return(ErrorResult(body.exc))
                ELSE body)

(***************************************************************************)
(* ocr_runner.process_image_file                                            *)
(***************************************************************************)
RunnerDependencyErrorResult ==
    [success |-> FALSE,
     error |-> "Missing required dependencies: " \o ERROR_MESSAGE,
     error_type |-> "DependencyError",
     required_libraries |-> <<"numpy", "opencv-python (cv2)", "paddleocr",
                              "Pillow (PIL)", "pdf2image">>,
     system_dependencies |-> <<"libgl1">>]

RunnerErrorResult(e) ==
    [success |-> FALSE, error |-> e.msg, error_type |-> e.type,
     traceback |-> "traceback"]

ProcessImageFile(file_path, engines, structure_out, ocr_out, search_fault) ==
    IF ~DEPENDENCIES_AVAILABLE THEN Return(RunnerDependencyErrorResult)
    ELSE With(ProcessImage(NewProcessor(engines), file_path,
                           structure_out, ocr_out, search_fault),
              LAMBDA result :
                IF result.kind = "raise" /\ result.exc.type \in ExceptionClasses
                THEN Return(RunnerErrorResult(result.exc))
                ELSE result)

(***************************************************************************)
(* The inputs of the model.                                                 *)
(***************************************************************************)
SeqsUpTo(S, n) == UNION { [1..k -> S] : k \in 0..n }

\* the sets of libraries that may be missing at import
MissingSets ==
    { m \in SUBSET { Dependencies[i] : i \in DOMAIN Dependencies } :
        Cardinality(m) <= MaxMissing }

\* lines the OCR engine may emit: confidences on the 0-1 scale, a line without
\* a numeric confidence, a line that is only a box
LinePool ==
    { Line("b1", Chars("BOL# ABCD1234"), Confidence(10000)),
      Line("b2", Chars("Carrier: ABC Shipping"), Confidence(9876)),
      Line("b3", Chars("Weight: 1500 lbs"), NoConfidence),
      Line("b4", Chars("Pallets: 4"), Confidence(9000)),
      ShortLine("b5") }

\* regions PP-Structure may emit
RegionPool ==
    { [type |-> "table", bbox |-> "r1", confidence |-> 9512, html |-> "<table>",
       res |-> [cell_bbox |-> <<"c1", "c2">>, cell_contents |-> <<Chars("A")>>],
       bs4 |-> Return(<< <<Chars("A")>> >>)],
      [type |-> "text", bbox |-> "r2", confidence |-> 8000, text |-> Chars("Carrier"),
       res |-> [text |-> << <<Chars("Carrier"), 9876>> >>]],
      [type |-> "figure", bbox |-> "r3", confidence |-> 7000] }

\* image_data given to process_image
ImagePool ==
    { Image("ndarray", FALSE, 1, NoFault),
      Image("file", TRUE, 1, NoFault),
      Image("file", TRUE, 0, NoFault),
      Image("bytes", TRUE, 0, NoFault),
      Image("other", FALSE, 0, NoFault) }
    \cup { Image("ndarray", FALSE, 1, e) : e \in CollaboratorErrors }

\* file_path given to process_image_file
FilePool ==
    { Image("file", FALSE, 1, NoFault),
      Image("file", TRUE, 0, NoFault),
      Image("nofile", FALSE, 0, NoFault),
      Image("file", FALSE, 1, Exc("error", "OpenCV: !_src.empty()")) }

\* whether a call with this processor and image reaches self.pp_structure(img)
ReachesEngines(self, image_data) ==
    /\ DEPENDENCIES_AVAILABLE
    /\ self.pp_structure # "None"
    /\ self.ocr # "None"
    /\ PreprocessImage(image_data).kind = "return"

\* what self.pp_structure(img) does, when it is called
StructureOutcomes(called) ==
    IF called
    THEN { Raise(e) : e \in CollaboratorErrors }
         \cup { Return(rs) : rs \in SeqsUpTo(RegionPool, MaxElements) }
    ELSE { NotCalled }

\* what self.ocr(img) does, when it is called: the document has at most
\* MaxElements regions and lines
OcrOutcomes(called, structure_out) ==
    IF called /\ structure_out.kind = "return"
    THEN { Raise(e) : e \in CollaboratorErrors }
         \cup { Return(OcrNone), Return(OcrPages(<<>>)), Return(OcrPages(<<PageNone>>)) }
         \cup { Return(OcrPages(<<Page(ls)>>)) :
                  ls \in SeqsUpTo(LinePool, MaxElements - Len(structure_out.value)) }
    ELSE { NotCalled }

\* what re.search does during the extraction, when the call gets there
SearchOutcomes(ocr_out) ==
    IF /\ ocr_out.kind = "return"
       /\ (ocr_out.value.is_none \/ Len(ocr_out.value.pages) = 0
             \/ ~ocr_out.value.pages[1].is_none)
    THEN {NoSearchFault} \cup SearchFaults
    ELSE {NoSearchFault}

(***************************************************************************)
(* The state machine: the module is imported, processors are constructed,   *)
(* process_image and process_image_file are called and their results taken. *)
(***************************************************************************)
Init ==
    /\ \E missing \in MissingSets :
          LET m == ImportModule(missing)
          IN  /\ DEPENDENCIES_AVAILABLE = m.DEPENDENCIES_AVAILABLE
              /\ ERROR_MESSAGE = m.ERROR_MESSAGE
              /\ module_loaded = m.loaded
    /\ processor = NoProcessor
    /\ history = NoHistory
    /\ call = NoCall

\* processor = BOLProcessor()
Construct ==
    /\ module_loaded
    /\ call.pc = "idle"
    /\ \E engines \in EngineOutcomes : processor' = NewProcessor(engines)
    /\ history' = [self |-> processor', previous |-> "none"]
    /\ UNCHANGED <<DEPENDENCIES_AVAILABLE, ERROR_MESSAGE, module_loaded, call>>

\* processor.process_image(image_data)
DoProcessImage ==
    /\ module_loaded
    /\ processor.constructed
    /\ call.pc = "idle"
    /\ \E image_data \in ImagePool :
         \E structure_out \in StructureOutcomes(ReachesEngines(processor, image_data)) :
           \E ocr_out \in OcrOutcomes(ReachesEngines(processor, image_data), structure_out) :
             \E search_fault \in SearchOutcomes(ocr_out) :
              call' = [op |-> "process_image", pc |-> "done",
                       self |-> processor,
                       image_data |-> image_data,
                       structure_out |-> structure_out,
                       ocr_out |-> ocr_out,
                       search_fault |-> search_fault,
                       outcome |-> ProcessImage(processor, image_data,
                                                structure_out, ocr_out,
                                                search_fault)]
    /\ processor' = SelfAfterProcessImage(processor, call'.outcome)
    /\ UNCHANGED <<DEPENDENCIES_AVAILABLE, ERROR_MESSAGE, module_loaded, history>>

\* process_image_file(file_path), which constructs a processor of its own
DoProcessImageFile ==
    /\ module_loaded
    /\ call.pc = "idle"
    /\ \E file_path \in FilePool, engines \in EngineOutcomes :
         \E structure_out \in
               StructureOutcomes(ReachesEngines(NewProcessor(engines), file_path)) :
           \E ocr_out \in
                 OcrOutcomes(ReachesEngines(NewProcessor(engines), file_path),
                             structure_out) :
             \E search_fault \in SearchOutcomes(ocr_out) :
              call' = [op |-> "process_image_file", pc |-> "done",
                       self |-> NewProcessor(engines),
                       image_data |-> file_path,
                       structure_out |-> structure_out,
                       ocr_out |-> ocr_out,
                       search_fault |-> search_fault,
                       outcome |-> ProcessImageFile(file_path, engines,
                                                    structure_out, ocr_out,
                                                    search_fault)]
    /\ UNCHANGED <<DEPENDENCIES_AVAILABLE, ERROR_MESSAGE, module_loaded, processor,
                   history>>

\* the caller takes the result
TakeResult ==
    /\ call.op \in {"process_image", "process_image_file"}
    /\ call.pc = "done"
    /\ call' = NoCall
    /\ history' = IF call.op = "process_image"
                  THEN [history EXCEPT !.previous = HowEnded(call.outcome)]
                  ELSE history
    /\ UNCHANGED <<DEPENDENCIES_AVAILABLE, ERROR_MESSAGE, module_loaded, processor>>

Next == Construct \/ DoProcessImage \/ DoProcessImageFile \/ TakeResult

Spec == Init /\ [][Next]_vars

(***************************************************************************)
(* Direct calls of the scorer: the inputs are drawn by ScoreInit.           *)
(***************************************************************************)
\* the lengths of full_text around the tier boundaries
ScoreTextLens == {0, 10, 11, 50, 51, 100, 101, MaxTextLen}

\* average_confidence values: negative, on the 0-1 scale, fractional, on the
\* 0-100 scale (89.0, 89.99, 90.0, 100.0), above 100
ScoreConfs == {-MaxScoreConf, -25000, -1, 0, 9876, 10000, 12400, 12500,
               890000, 899900, 900000, 1000000, 1750000, MaxScoreConf}

SomeValue == <<"A", "1">>

\* extracted_fields: a scored field is absent, empty or non-empty; an address
\* is absent or non-empty
ScoreFieldMaps ==
    UNION { [ks -> {<<>>, SomeValue}] : ks \in SUBSET (DOMAIN field_weights) }

ScoreAddressMaps ==
    UNION { [ks -> {SomeValue}] : ks \in SUBSET {"from_address", "to_address"} }

ScoreStructuredData ==
    { [full_text |-> [text |-> Rep("x", n), lines |-> <<>>],
       extracted_fields |-> f @@ a] :
         n \in ScoreTextLens, f \in ScoreFieldMaps, a \in ScoreAddressMaps }
    \cup { <<>> }

\* the module imported with every library present, and no processor
ModuleInit ==
    /\ DEPENDENCIES_AVAILABLE = ImportModule({}).DEPENDENCIES_AVAILABLE
    /\ ERROR_MESSAGE = ImportModule({}).ERROR_MESSAGE
    /\ module_loaded = ImportModule({}).loaded
    /\ processor = NoProcessor
    /\ history = NoHistory

ScoreInit ==
    /\ ModuleInit
    /\ \E sd \in ScoreStructuredData, c \in ScoreConfs :
          call = [op |-> "_calculate_quality_score", pc |-> "called",
                  structured_data |-> sd, average_confidence |-> c]

DoCalculateQualityScore ==
    /\ call.op = "_calculate_quality_score"
    /\ call.pc = "called"
    /\ call' = [op |-> "_calculate_quality_score", pc |-> "done",
                structured_data |-> call.structured_data,
                average_confidence |-> call.average_confidence,
                result |-> CalculateQualityScore(call.structured_data,
                                                 call.average_confidence)]
    /\ UNCHANGED <<DEPENDENCIES_AVAILABLE, ERROR_MESSAGE, module_loaded, processor,
                   history>>

ScoreNext == DoCalculateQualityScore

ScoreSpec == ScoreInit /\ [][ScoreNext]_vars

ScoreDone == call.op = "_calculate_quality_score" /\ call.pc = "done"

(***************************************************************************)
(* Claims about _calculate_quality_score, checked under ScoreSpec.          *)
(***************************************************************************)
CallSum == WeightedSum(call.structured_data, call.average_confidence)

CallText == Get(Get(call.structured_data, "full_text", <<>>), "text", <<>>)

CallFields == Get(call.structured_data, "extracted_fields", <<>>)

C3_Original ==
    ScoreDone => call.result = Min(100, Max(0, RoundOfScore(CallSum)))

\* C3 as amended: the score is the weighted sum truncated toward zero (its
\* fractional part dropped, whatever it is), then clamped to 0..100.
C3_ScoreTruncates ==
    ScoreDone =>
        /\ CallSum < 0 => call.result = 0
        /\ CallSum >= 100 * 100000 => call.result = 100
        /\ (CallSum >= 0 /\ CallSum < 100 * 100000) =>
              /\ 100000 * call.result <= CallSum
              /\ CallSum < 100000 * (call.result + 1)

\* C3 witness: a sum inside 0..100 with fractional part >= 0.5 (83.6) is
\* returned as the integer below it.
C3_Witness ==
    /\ ScoreDone
    /\ CallSum = 8360000
    /\ call.result = 83

\* C4: with full_text and extracted_fields fixed, the score is monotonically
\* non-decreasing in average_confidence, clamped values included.
C4_MonotoneInConfidence ==
    ScoreDone =>
        \A c2 \in ScoreConfs :
            call.average_confidence <= c2 =>
                call.result <= CalculateQualityScore(call.structured_data, c2)

\* C4 witness: a call with a negative confidence, clamped to 0, for which a
\* larger confidence gives a strictly larger score.
C4_Witness ==
    /\ ScoreDone
    /\ call.average_confidence < 0
    /\ call.result = 0
    /\ \E c2 \in ScoreConfs :
          /\ c2 > call.average_confidence
          /\ CalculateQualityScore(call.structured_data, c2) > 0

\* C5: the text-volume component is a step function of len(full_text) with
\* exactly one tier: 30 above 100, 20 in 51..100, 10 in 11..50, 0 up to 10;
\* with confidence 0 and no field the score is that tier.
C5_TextTiers ==
    (ScoreDone /\ call.average_confidence = 0 /\ DOMAIN CallFields = {}) =>
        /\ Len(CallText) > 100 => call.result = 30
        /\ (Len(CallText) > 50 /\ Len(CallText) <= 100) => call.result = 20
        /\ (Len(CallText) > 10 /\ Len(CallText) <= 50) => call.result = 10
        /\ Len(CallText) <= 10 => call.result = 0

\* C5 witness: a text of exactly 100 characters scores 20, not 30.
C5_Witness ==
    /\ ScoreDone
    /\ call.average_confidence = 0
    /\ DOMAIN CallFields = {}
    /\ Len(CallText) = 100
    /\ call.result = 20

\* the points the claim gives a field: present with a non-empty value
C6_Points(fields, name, points) ==
    IF name \in DOMAIN fields /\ fields[name] # <<>> THEN points ELSE 0

\* C6: the field component is the sum of 10, 8, 5, 4, 3 over bol_number,
\* carrier_name, weight, pallet_count, ship_date present with a non-empty
\* value; from_address and to_address never change the score; a key with an
\* empty value adds nothing; confidence 90, 150 characters and the fields
\* bol_number and carrier_name score 84.
C6_FieldPoints ==
    ScoreDone =>
        LET pts == C6_Points(CallFields, "bol_number", 10)
                   + C6_Points(CallFields, "carrier_name", 8)
                   + C6_Points(CallFields, "weight", 5)
                   + C6_Points(CallFields, "pallet_count", 4)
                   + C6_Points(CallFields, "ship_date", 3)
            noAddr == [call.structured_data EXCEPT !.extracted_fields =
                          Without(CallFields, {"from_address", "to_address"})]
        IN  /\ (call.average_confidence = 0 /\ Len(CallText) <= 10
                  /\ "extracted_fields" \in DOMAIN call.structured_data)
               => call.result = pts
            /\ "extracted_fields" \in DOMAIN call.structured_data
               => call.result =
                    CalculateQualityScore(noAddr, call.average_confidence)
            /\ (call.average_confidence = 900000 /\ Len(CallText) = 150
                  /\ DOMAIN CallFields = {"bol_number", "carrier_name"}
                  /\ CallFields["bol_number"] # <<>>
                  /\ CallFields["carrier_name"] # <<>>)
               => call.result = 84

\* C6 witness: bol_number present but empty, carrier_name non-empty and both
\* addresses present score 8 with confidence 0 and no text.
C6_Witness ==
    /\ ScoreDone
    /\ call.average_confidence = 0
    /\ Len(CallText) = 0
    /\ DOMAIN CallFields = {"bol_number", "carrier_name", "from_address", "to_address"}
    /\ CallFields["bol_number"] = <<>>
    /\ CallFields["carrier_name"] # <<>>
    /\ call.result = 8

(***************************************************************************)
(* Claims about process_image and process_image_file, checked under Spec.   *)
(***************************************************************************)
ImageDone == call.op = "process_image" /\ call.pc = "done"

FileDone == call.op = "process_image_file" /\ call.pc = "done"

\* the call got past the dependency and the initialization checks
EnteredTry ==
    /\ DEPENDENCIES_AVAILABLE
    /\ call.self.pp_structure # "None"
    /\ call.self.ocr # "None"

\* self.ocr(img) returned something the loop of lines 337-360 can read, and
\* nothing is raised after it
OcrReadable ==
    /\ call.ocr_out.kind = "return"
    /\ call.search_fault = NoSearchFault
    /\ (call.ocr_out.value.is_none
          \/ Len(call.ocr_out.value.pages) = 0
          \/ ~call.ocr_out.value.pages[1].is_none)

\* the lines of ocr_result[0] that carry a text and a numeric confidence
NumericLines ==
    IF call.ocr_out.value.is_none \/ Len(call.ocr_out.value.pages) = 0
    THEN <<>>
    ELSE SelectSeq(call.ocr_out.value.pages[1].lines,
                   LAMBDA line : line.len >= 2 /\ line.confidence.numeric)

\* the lines of ocr_result[0] that carry a text and no numeric confidence
OtherLines ==
    IF call.ocr_out.value.is_none \/ Len(call.ocr_out.value.pages) = 0
    THEN <<>>
    ELSE SelectSeq(call.ocr_out.value.pages[1].lines,
                   LAMBDA line : line.len >= 2 /\ ~line.confidence.numeric)

\* C2: confidences on the 0-1 scale are converted to the 0-100 scale once
\* before the 0.4 weight is applied: a document whose numeric confidences are
\* all 1.0 gets 40 points from confidence, so its quality_score is the score
\* of its text and fields with an average confidence of 100.
C2_ConfidenceOnPercentScale ==
    (ImageDone /\ OcrReadable /\ NumericLines # <<>>
       /\ \A j \in DOMAIN NumericLines : NumericLines[j].confidence.value = 10000)
    => /\ call.outcome.kind = "return"
       /\ call.outcome.value.success
       /\ call.outcome.value.quality_score =
             CalculateQualityScore(call.outcome.value, 100 * 10000)

\* C7 as stated: average_confidence is the arithmetic mean of the numeric
\* confidences, lines without one left out of sum and count; such lines do
\* not fail the call; without a numeric confidence the average is 0.
C7_Original ==
    (ImageDone /\ OcrReadable) =>
        /\ call.outcome.kind = "return"
        /\ call.outcome.value.success
        /\ call.outcome.value.average_confidence * Len(NumericLines)
              = SumConfidence(NumericLines)

\* C7 as amended: average_confidence is the arithmetic mean of the numeric
\* confidences rounded to two decimals (a multiple of 0.01 at most 0.005 from
\* the mean), lines without a numeric confidence left out of sum and count;
\* such lines do not fail the call; without a numeric confidence it is 0.
C7_AverageRounded ==
    (ImageDone /\ OcrReadable) =>
        LET count == Len(NumericLines)
            total == SumConfidence(NumericLines)
            average == call.outcome.value.average_confidence
        IN  /\ call.outcome.kind = "return"
            /\ call.outcome.value.success
            /\ count = 0 => average = 0
            /\ count > 0 =>
                  /\ average % 100 = 0
                  /\ 2 * (average * count - total) <= 100 * count
                  /\ 2 * (total - average * count) <= 100 * count

\* C7 witness: a line without a numeric confidence next to a line of
\* confidence 0.9876: the call succeeds with an average of 0.99.
C7_Witness ==
    /\ ImageDone
    /\ OcrReadable
    /\ OtherLines # <<>>
    /\ Len(NumericLines) = 1
    /\ SumConfidence(NumericLines) = 9876
    /\ call.outcome.kind = "return"
    /\ call.outcome.value.success
    /\ call.outcome.value.average_confidence = 9900

\* the keys of a successful result that carry extracted data
StructuredKeys ==
    {"extracted_fields", "full_text", "average_confidence", "quality_score",
     "layout", "tables", "text_blocks"}

\* C8: a result of process_image with success false (missing dependency,
\* engine not initialized, an exception in the try) has none of the keys
\* extracted_fields, full_text, average_confidence, quality_score, layout,
\* tables, text_blocks, whatever had been computed before the exception.
C8_NoPartialFields ==
    (ImageDone /\ call.outcome.kind = "return" /\ ~call.outcome.value.success)
    => DOMAIN call.outcome.value \cap StructuredKeys = {}

\* C8 witness: the layout analysis returned regions, then the OCR raised: the
\* result has success false and no layout.
C8_Witness ==
    /\ ImageDone
    /\ call.structure_out.kind = "return"
    /\ Len(call.structure_out.value) > 0
    /\ call.ocr_out.kind = "raise"
    /\ call.outcome.kind = "return"
    /\ ~call.outcome.value.success
    /\ "layout" \notin DOMAIN call.outcome.value

\* C9: in every result of process_image the keys error and error_type are
\* present with a populated (non-empty) value if and only if success is
\* false; a result with success true has neither key.
C9_ErrorPopulated ==
    (ImageDone /\ call.outcome.kind = "return") =>
        LET result == call.outcome.value
        IN  /\ ~result.success <=>
                  /\ "error" \in DOMAIN result
                  /\ "error_type" \in DOMAIN result
                  /\ result.error # ""
                  /\ result.error_type # ""
            /\ result.success =>
                  /\ "error" \notin DOMAIN result
                  /\ "error_type" \notin DOMAIN result

\* the envelope the except clauses build from the exception e
IsEnvelopeOf(result, e) ==
    /\ ~result.success
    /\ result.error = e.msg
    /\ result.error_type = e.type

\* C10: process_image and process_image_file never propagate an exception:
\* each call returns, and an exception raised in the try by preprocessing,
\* PP-Structure, OCR, the reading of its result or the extraction gives
\* success false, error the exception's message and error_type the
\* exception's class.
C10_NeverPropagates ==
    (ImageDone \/ FileDone) =>
        /\ call.outcome.kind = "return"
        /\ (EnteredTry /\ PreprocessImage(call.image_data).kind = "raise") =>
              IsEnvelopeOf(call.outcome.value, PreprocessImage(call.image_data).exc)
        /\ (EnteredTry /\ call.structure_out.kind = "raise") =>
              IsEnvelopeOf(call.outcome.value, call.structure_out.exc)
        /\ (EnteredTry /\ call.ocr_out.kind = "raise") =>
              IsEnvelopeOf(call.outcome.value, call.ocr_out.exc)
        /\ (EnteredTry /\ call.ocr_out.kind = "return"
              /\ call.search_fault = NoSearchFault /\ ~OcrReadable) =>
              IsEnvelopeOf(call.outcome.value,
                           Exc("TypeError", "'NoneType' object is not iterable"))
        /\ (EnteredTry /\ call.search_fault # NoSearchFault) =>
              IsEnvelopeOf(call.outcome.value, call.search_fault.exc)

\* C10 witness: the OCR engine raised a RuntimeError inside process_image and
\* the caller got an envelope naming it.
C10_Witness ==
    /\ ImageDone
    /\ EnteredTry
    /\ call.ocr_out.kind = "raise"
    /\ call.ocr_out.exc.type = "RuntimeError"
    /\ call.outcome.kind = "return"
    /\ ~call.outcome.value.success
    /\ call.outcome.value.error = "inference failed"
    /\ call.outcome.value.error_type = "RuntimeError"

\* C11: whichever one of numpy, PIL, cv2, paddleocr, pdf2image cannot be
\* imported, the module still loads, and a call of process_image or
\* process_image_file returns success false, error_type DependencyError and
\* an error naming the missing libraries.
C11_DependencyEnvelope ==
    /\ module_loaded
    /\ ((ImageDone \/ FileDone) /\ ~DEPENDENCIES_AVAILABLE) =>
          /\ call.outcome.kind = "return"
          /\ ~call.outcome.value.success
          /\ call.outcome.value.error_type = "DependencyError"
          /\ call.outcome.value.error =
                "Missing required dependencies: " \o ERROR_MESSAGE

(***************************************************************************)
(* Direct calls of _extract_bol_fields: the texts are drawn by ExtractInit. *)
(***************************************************************************)
\* lines a Bill of Lading may carry, one or more for each rule list
FragmentPool ==
    { Chars("BOL# ABCD1234"), Chars("BL 99887766"),
      Chars("Carrier: ABC"), Chars("Carrier: ACME"),
      Chars("Express: Fast Freight"),
      Chars("Weight: 500 kg"), Chars("12.5 pounds"), Chars("Total Weight: 80"),
      Chars("6 Skids"),
      Chars("Delivery Date: 01/02/2024"), Chars("Ship Date: 3-4-24"),
      Chars("From: Reno, NV 89501 To: Austin, TX 73301") }

\* carrier lines whose names are 99 and 100 letters long
LongCarrierTexts ==
    { Chars("Carrier: ") \o Rep("A", 99), Chars("Carrier: ") \o Rep("A", 100) }

\* the texts: up to MaxFragments lines joined by newlines
ExtractTexts ==
    { Join(fs) : fs \in SeqsUpTo(FragmentPool, MaxFragments) }
    \cup LongCarrierTexts

ExtractInit ==
    /\ ModuleInit
    /\ \E text \in ExtractTexts :
          call = [op |-> "_extract_bol_fields", pc |-> "called",
                  text_content |-> text]

DoExtractBolFields ==
    /\ call.op = "_extract_bol_fields"
    /\ call.pc = "called"
    /\ call' = [op |-> "_extract_bol_fields", pc |-> "done",
                text_content |-> call.text_content,
                result |-> ExtractBolFields(call.text_content)]
    /\ UNCHANGED <<DEPENDENCIES_AVAILABLE, ERROR_MESSAGE, module_loaded, processor,
                   history>>

ExtractNext == DoExtractBolFields

ExtractSpec == ExtractInit /\ [][ExtractNext]_vars

ExtractDone == call.op = "_extract_bol_fields" /\ call.pc = "done"

(***************************************************************************)
(* Claims about _extract_bol_fields, checked under ExtractSpec.             *)
(***************************************************************************)
\* the rules of a list, by position, that match somewhere in the text
Matching(patterns, text) ==
    { j \in DOMAIN patterns : ReSearch(patterns[j], text).ok }

\* group(1) of the match of the j-th rule of a list
Capture(patterns, j, text) == Group1(text, ReSearch(patterns[j], text))

\* the carrier rules whose stripped capture passes the length check
AcceptedCarrier(text) ==
    { j \in Matching(carrier_patterns, text) :
        /\ Len(Strip(Capture(carrier_patterns, j, text))) > 3
        /\ Len(Strip(Capture(carrier_patterns, j, text))) < 100 }

\* the result holds value under key name
Stores(name, value) ==
    name \in DOMAIN call.result /\ call.result[name] = value

\* the fields other than carrier_name are set by the first rule, in list
\* order, that matches anywhere in the text
FirstRuleWinsElsewhere ==
    LET text == call.text_content
        bol == Matching(bol_patterns, text)
        weight == Matching(weight_patterns, text)
        pallet == Matching(pallet_patterns, text)
        date == Matching(date_patterns, text)
    IN  /\ IF bol = {} THEN "bol_number" \notin DOMAIN call.result
           ELSE Stores("bol_number",
                       Strip(Capture(bol_patterns, SetMin(bol), text)))
        /\ IF weight = {} THEN "weight" \notin DOMAIN call.result
           ELSE Stores("weight",
                       Capture(weight_patterns, SetMin(weight), text)
                       \o Chars(" lbs"))
        /\ IF pallet = {} THEN "pallet_count" \notin DOMAIN call.result
           ELSE Stores("pallet_count",
                       Capture(pallet_patterns, SetMin(pallet), text))
        /\ IF date = {} THEN "ship_date" \notin DOMAIN call.result
           ELSE Stores("ship_date", Capture(date_patterns, SetMin(date), text))

\* C12 as stated: for each of bol_number, carrier_name, weight, pallet_count,
\* ship_date the first rule in list order that matches anywhere in the text
\* determines the field and no later rule is attempted: for carrier_name the
\* first matching rule's capture is stored, or nothing if it fails the
\* length check.
C12_Original ==
    ExtractDone =>
        /\ FirstRuleWinsElsewhere
        /\ LET text == call.text_content
               carrier == Matching(carrier_patterns, text)
           IN  IF carrier = {} \/ SetMin(carrier) \notin AcceptedCarrier(text)
               THEN "carrier_name" \notin DOMAIN call.result
               ELSE Stores("carrier_name",
                           Strip(Capture(carrier_patterns, SetMin(carrier), text)))

\* C12 as amended: for bol_number, weight, pallet_count, ship_date the first
\* rule in list order that matches anywhere in the text determines the field;
\* for carrier_name it is the first rule that matches and whose stripped
\* capture passes the length check: a rule that matches with a capture of
\* length <= 3 or >= 100 is passed over and the next rule is attempted.
C12_FirstAcceptedRule ==
    ExtractDone =>
        /\ FirstRuleWinsElsewhere
        /\ LET text == call.text_content
               accepted == AcceptedCarrier(text)
           IN  IF accepted = {} THEN "carrier_name" \notin DOMAIN call.result
               ELSE Stores("carrier_name",
                           Strip(Capture(carrier_patterns, SetMin(accepted), text)))

\* C12 witness: the first carrier rule matches "Carrier: ABC" with a capture
\* of three letters, the second matches "Express: Fast Freight", and the
\* second one's capture is stored.
C12_Witness ==
    /\ ExtractDone
    /\ Matching(carrier_patterns, call.text_content) = {1, 2}
    /\ Strip(Capture(carrier_patterns, 1, call.text_content)) = Chars("ABC")
    /\ Stores("carrier_name", Chars("Fast Freight"))

\* C13: if the rule evaluation of one field throws during extraction, only
\* that field's key is omitted: process_image returns success true with the
\* other fields as extracted.
C13_FieldFailureIsLocal ==
    (ImageDone /\ EnteredTry /\ call.ocr_out.kind = "return"
       /\ call.search_fault # NoSearchFault) =>
        /\ call.outcome.kind = "return"
        /\ call.outcome.value.success
        /\ call.outcome.value.extracted_fields =
              Without(ExtractBolFields(call.outcome.value.full_text.text),
                      {call.search_fault.field})

\* the keys _extract_bol_fields may set
ExtractedKeys ==
    {"bol_number", "carrier_name", "weight", "pallet_count", "ship_date",
     "from_address", "to_address"}

\* whether some rule for the field matched the text (and, for carrier_name,
\* passed the length check)
RuleMatched(name, text) ==
    CASE name = "bol_number" -> Matching(bol_patterns, text) # {}
      [] name = "carrier_name" -> AcceptedCarrier(text) # {}
      [] name = "weight" -> Matching(weight_patterns, text) # {}
      [] name = "pallet_count" -> Matching(pallet_patterns, text) # {}
      [] name = "ship_date" -> Matching(date_patterns, text) # {}
      [] name = "from_address" -> ReSearch(address_patterns[1], text).ok
      [] name = "to_address" -> ReSearch(address_patterns[2], text).ok

\* C14: the mapping returned by _extract_bol_fields has a key exactly when a
\* rule for that field matched (for carrier_name: and passed the length
\* check); its keys are among bol_number, carrier_name, weight, pallet_count,
\* ship_date, from_address, to_address; every value is a non-empty string.
C14_KeysOnlyWhenMatched ==
    ExtractDone =>
        /\ DOMAIN call.result \subseteq ExtractedKeys
        /\ \A name \in ExtractedKeys :
              name \in DOMAIN call.result <=> RuleMatched(name, call.text_content)
        /\ \A name \in DOMAIN call.result :
              /\ Len(call.result[name]) > 0
              /\ \A i \in 1..Len(call.result[name]) :
                    Len(call.result[name][i]) = 1

\* C14 witness: in "Carrier: ABC" over "6 Skids" the carrier label matches
\* with a capture that fails the length check: the mapping has pallet_count
\* and no carrier_name.
C14_Witness ==
    /\ ExtractDone
    /\ call.text_content = Chars("Carrier: ABC\n6 Skids")
    /\ Matching(carrier_patterns, call.text_content) # {}
    /\ DOMAIN call.result = {"pallet_count"}
    /\ call.result["pallet_count"] = Chars("6")

\* a numeral: digits, or digits, a point and digits
IsNumeral(n) ==
    /\ Len(n) > 0
    /\ \A i \in 1..Len(n) : n[i] \in Digit \cup {"."}
    /\ n[1] \in Digit
    /\ n[Len(n)] \in Digit
    /\ Cardinality({ i \in 1..Len(n) : n[i] = "." }) <= 1

\* whether part occurs in text as a run of consecutive characters
OccursIn(part, text) ==
    \E i \in 1..(Len(text) - Len(part) + 1) :
        SubSeq(text, i, i + Len(part) - 1) = part

\* C15: whenever weight is present its value is a numeral captured by a weight
\* rule, as it stands in the text, followed by " lbs", whatever rule matched
\* and whatever unit token (lbs, pounds, kg, kgs or none) the text carries.
C15_WeightSuffix ==
    (ExtractDone /\ "weight" \in DOMAIN call.result) =>
        LET value == call.result["weight"]
            numeral == SubSeq(value, 1, Len(value) - 4)
        IN  /\ Len(value) > 4
            /\ SubSeq(value, Len(value) - 3, Len(value)) = Chars(" lbs")
            /\ IsNumeral(numeral)
            /\ OccursIn(numeral, call.text_content)
            /\ \E j \in Matching(weight_patterns, call.text_content) :
                  numeral = Capture(weight_patterns, j, call.text_content)

\* C15 witness: "Weight: 500 kg" gives the weight "500 lbs".
C15_Witness ==
    /\ ExtractDone
    /\ OccursIn(Chars("Weight: 500 kg"), call.text_content)
    /\ "weight" \in DOMAIN call.result
    /\ call.result["weight"] = Chars("500 lbs")

\* the only date label the rules find in the text is "Delivery Date": the
\* ship-date rule does not match, the delivery-date rule does, and the match
\* of the generic "Date" rule is the date of the delivery-date label
DeliveryDateOnly(text) ==
    /\ ~ReSearch(date_patterns[1], text).ok
    /\ ReSearch(date_patterns[2], text).ok
    /\ ReSearch(date_patterns[3], text).ok
    /\ ReSearch(date_patterns[3], text).g = ReSearch(date_patterns[2], text).g

\* C16: the label before a matched date decides the key that receives it: a
\* date that follows only a "Delivery Date" label is not stored under
\* ship_date.
C16_LabelDecidesKey ==
    (ExtractDone /\ DeliveryDateOnly(call.text_content)) =>
        "ship_date" \notin DOMAIN call.result

\* C17: whenever carrier_name is present its value is a capture of a carrier
\* rule with the whitespace at both ends removed, of length 4 to 99.
C17_CarrierLength ==
    (ExtractDone /\ "carrier_name" \in DOMAIN call.result) =>
        LET value == call.result["carrier_name"]
        IN  /\ Len(value) >= 4
            /\ Len(value) <= 99
            /\ value[1] \notin Space
            /\ value[Len(value)] \notin Space
            /\ \E j \in Matching(carrier_patterns, call.text_content) :
                  OccursIn(value, Capture(carrier_patterns, j, call.text_content))

\* C17 witness: a carrier name of 99 letters is stored (and, by the claim,
\* one of 100 letters is not).
C17_Witness ==
    /\ ExtractDone
    /\ call.text_content = Chars("Carrier: ") \o Rep("A", 99)
    /\ "carrier_name" \in DOMAIN call.result
    /\ Len(call.result["carrier_name"]) = 99

\* C18: a process_image call leaves self.pp_structure, self.ocr and the
\* module variables as they were, and its result (the processing time is not
\* modelled) is the one the processor as constructed gives for this call's
\* image and collaborator outputs, however the earlier calls on it ended.
C18_Stateless ==
    [][(call.pc = "idle" /\ call'.op = "process_image") =>
          /\ processor' = processor
          /\ processor' = history.self
          /\ DEPENDENCIES_AVAILABLE' = DEPENDENCIES_AVAILABLE
          /\ ERROR_MESSAGE' = ERROR_MESSAGE
          /\ call'.outcome = ProcessImage(history.self, call'.image_data,
                                          call'.structure_out, call'.ocr_out,
                                          call'.search_fault)]_vars

\* C18 witness: a call succeeds on a processor whose previous call failed.
C18_Witness ==
    /\ ImageDone
    /\ history.previous = "failure"
    /\ call.outcome.kind = "return"
    /\ call.outcome.value.success
    /\ processor = history.self

\* the lines of ocr_result[0] that carry a text, in the order of emission
TextLines ==
    IF call.ocr_out.value.is_none \/ Len(call.ocr_out.value.pages) = 0
    THEN <<>>
    ELSE SelectSeq(call.ocr_out.value.pages[1].lines, LAMBDA line : line.len >= 2)

\* the call returned a successful result
Succeeded ==
    /\ ImageDone
    /\ call.outcome.kind = "return"
    /\ call.outcome.value.success

\* text and bbox of the line records are those of the OCR lines, and
\* extracted_fields and quality_score are what the extractor and the scorer
\* gave for the result's own full text, structure and average
CarriedThrough ==
    LET result == call.outcome.value
        lines == result["full_text"].lines
    IN  /\ Len(lines) = Len(TextLines)
        /\ \A i \in DOMAIN lines :
              /\ lines[i].text = TextLines[i].text
              /\ lines[i].bbox = TextLines[i].bbox
        /\ result["extracted_fields"] = ExtractBolFields(result["full_text"].text)
        /\ result["quality_score"] =
              CalculateQualityScore(Without(result, {"success", "processing_time",
                                                      "average_confidence",
                                                      "quality_score", "engine_version",
                                                      "total_text_lines", "total_tables",
                                                      "total_layout_elements"}),
                                    result["average_confidence"])

\* C19 as stated: the line records, extracted_fields, average_confidence and
\* quality_score of a successful result are the values produced upstream, the
\* confidence of each line and the average unrounded.
C19_Original ==
    Succeeded =>
        LET result == call.outcome.value
            lines == result["full_text"].lines
        IN  /\ CarriedThrough
            /\ \A i \in DOMAIN lines : lines[i].confidence = TextLines[i].confidence
            /\ result["average_confidence"] * Len(NumericLines)
                  = SumConfidence(NumericLines)

\* C19 as amended: text and bbox of the line records, extracted_fields and
\* quality_score are the values produced upstream; the confidence of a line
\* is the OCR confidence rounded to three decimals when it is a number and
\* the OCR value itself otherwise; average_confidence is the mean rounded to
\* two decimals.
C19_RoundTrip ==
    Succeeded =>
        LET result == call.outcome.value
            lines == result["full_text"].lines
            count == Len(NumericLines)
            total == SumConfidence(NumericLines)
            average == result["average_confidence"]
        IN  /\ CarriedThrough
            /\ \A i \in DOMAIN lines :
                  IF TextLines[i].confidence.numeric
                  THEN /\ lines[i].confidence.numeric
                       /\ lines[i].confidence.value % 10 = 0
                       /\ 2 * (lines[i].confidence.value
                                 - TextLines[i].confidence.value) <= 10
                       /\ 2 * (TextLines[i].confidence.value
                                 - lines[i].confidence.value) <= 10
                  ELSE lines[i].confidence = TextLines[i].confidence
            /\ count = 0 => average = 0
            /\ count > 0 =>
                  /\ average % 100 = 0
                  /\ 2 * (average * count - total) <= 100 * count
                  /\ 2 * (total - average * count) <= 100 * count

\* C19 witness: a line of confidence 0.9876 comes back with its text and
\* bbox and the confidence 0.988, next to fields extracted from the text.
C19_Witness ==
    /\ Succeeded
    /\ Len(TextLines) = 2
    /\ TextLines[2].confidence = Confidence(9876)
    /\ call.outcome.value["full_text"].lines[2] =
          [text |-> TextLines[2].text, bbox |-> TextLines[2].bbox,
           confidence |-> Confidence(9880)]
    /\ "bol_number" \in DOMAIN call.outcome.value["extracted_fields"]

\* where the i-th text line starts in the full text: after the lines before
\* it and one newline for each
RECURSIVE Offset(_)
Offset(i) ==
    IF i = 1 THEN 0 ELSE Offset(i - 1) + Len(TextLines[i - 1].text) + 1

\* C20: in a successful result the full text consists of the texts of the
\* OCR lines in the order of emission, each once, with one newline between
\* neighbours and nothing else, and total_text_lines is their number.
C20_FullTextJoinsAllLines ==
    Succeeded =>
        LET text == call.outcome.value["full_text"].text
            n == Len(TextLines)
        IN  /\ call.outcome.value["total_text_lines"] = n
            /\ n = 0 => text = <<>>
            /\ n > 0 => Len(text) = Offset(n) + Len(TextLines[n].text)
            /\ \A i \in 1..n :
                  /\ Offset(i) + Len(TextLines[i].text) <= Len(text)
                  /\ SubSeq(text, Offset(i) + 1, Offset(i) + Len(TextLines[i].text))
                        = TextLines[i].text
                  /\ i < n => text[Offset(i) + Len(TextLines[i].text) + 1] = "\n"

\* C20 witness: two lines, the second one without a numeric confidence, are
\* both in the full text in the order the OCR engine gave them.
C20_Witness ==
    /\ Succeeded
    /\ Len(TextLines) = 2
    /\ TextLines[1].bbox = "b2"
    /\ TextLines[2].bbox = "b3"
    /\ call.outcome.value["total_text_lines"] = 2
    /\ call.outcome.value["full_text"].text =
          Chars("Carrier: ABC Shipping") \o <<"\n">> \o Chars("Weight: 1500 lbs")

\* the regions self.pp_structure(img) returned to this call
Regions == call.structure_out.value

\* the bboxes of the regions of a type, in input order
BboxesOfType(type) ==
    LET of_type == SelectSeq(Regions, LAMBDA region : region.type = type)
    IN  [i \in DOMAIN of_type |-> of_type[i].bbox]

\* C21: layout holds every region in input order; tables holds exactly the
\* regions of type "table" and text_blocks exactly those of type "text", in
\* input order; so tables and text_blocks together are no longer than layout,
\* and total_tables and total_layout_elements are the lengths of tables and
\* layout.
C21_RegionsByType ==
    Succeeded =>
        LET result == call.outcome.value
            layout == result["layout"]
            tables == result["tables"]
            text_blocks == result["text_blocks"]
        IN  /\ Len(layout) = Len(Regions)
            /\ \A i \in DOMAIN layout :
                  /\ layout[i].type = Regions[i].type
                  /\ layout[i].bbox = Regions[i].bbox
            /\ [i \in DOMAIN tables |-> tables[i].bbox] = BboxesOfType("table")
            /\ \A i \in DOMAIN tables : tables[i].type = "table"
            /\ [i \in DOMAIN text_blocks |-> text_blocks[i].bbox] = BboxesOfType("text")
            /\ \A i \in DOMAIN text_blocks : text_blocks[i].type = "text"
            /\ Len(tables) + Len(text_blocks) <= Len(layout)
            /\ result["total_tables"] = Len(tables)
            /\ result["total_layout_elements"] = Len(layout)

\* C21 witness: a figure followed by a table: both are in layout in that
\* order, the table alone is in tables, and text_blocks is empty.
C21_Witness ==
    /\ Succeeded
    /\ Len(Regions) = 2
    /\ Regions[1].type = "figure"
    /\ Regions[2].type = "table"
    /\ Len(call.outcome.value["layout"]) = 2
    /\ call.outcome.value["layout"][1].type = "figure"
    /\ Len(call.outcome.value["tables"]) = 1
    /\ call.outcome.value["text_blocks"] = <<>>
    /\ call.outcome.value["total_tables"] = 1
    /\ call.outcome.value["total_layout_elements"] = 2

\* C22: a constructed processor has both engines or neither; a call on one
\* without engines returns the DependencyError envelope when a library is
\* missing and the InitializationError envelope otherwise, and neither
\* preprocessing nor PP-Structure nor the OCR engine is called.
C22_EnginesBothOrNeither ==
    /\ processor.constructed =>
          (processor.pp_structure = "None" <=> processor.ocr = "None")
    /\ (ImageDone /\ (call.self.pp_structure = "None" \/ call.self.ocr = "None")) =>
          /\ call.self.pp_structure = "None"
          /\ call.self.ocr = "None"
          /\ call.structure_out = NotCalled
          /\ call.ocr_out = NotCalled
          /\ call.outcome =
                IF DEPENDENCIES_AVAILABLE
                THEN Return([success |-> FALSE,
                             error |-> "OCR engine was not initialized properly",
                             error_type |-> "InitializationError",
                             processing_time |-> Elapsed])
                ELSE Return(DependencyErrorResult)

\* C22 witness: an engine constructor raised, and a call with an image
\* that preprocessing would reject returns the InitializationError envelope.
C22_Witness ==
    /\ ImageDone
    /\ DEPENDENCIES_AVAILABLE
    /\ call.self.pp_structure = "None"
    /\ call.self.ocr = "None"
    /\ PreprocessImage(call.image_data).kind = "raise"
    /\ call.outcome.kind = "return"
    /\ call.outcome.value.error_type = "InitializationError"

\* the OCR engine returned no text line (None, no page, or a first page
\* without a text), and nothing was raised in the call
NoTextLines ==
    /\ ImageDone
    /\ EnteredTry
    /\ PreprocessImage(call.image_data).kind = "return"
    /\ call.structure_out.kind = "return"
    /\ OcrReadable
    /\ TextLines = <<>>

\* C23: when the OCR engine returns no text line and nothing is raised, the
\* call succeeds with an empty full text, no extracted field, an average
\* confidence of 0, no text line counted and a quality score of 0.
C23_EmptyDocument ==
    NoTextLines =>
        /\ call.outcome.kind = "return"
        /\ call.outcome.value.success
        /\ call.outcome.value["full_text"].text = <<>>
        /\ call.outcome.value["full_text"].lines = <<>>
        /\ DOMAIN call.outcome.value["extracted_fields"] = {}
        /\ call.outcome.value["average_confidence"] = 0
        /\ call.outcome.value["total_text_lines"] = 0
        /\ call.outcome.value["quality_score"] = 0

\* C23 witness: the OCR engine returned None for a document in which
\* PP-Structure found a table, and the call succeeded with a score of 0.
C23_Witness ==
    /\ NoTextLines
    /\ call.ocr_out.value.is_none
    /\ Len(call.structure_out.value) = 1
    /\ call.structure_out.value[1].type = "table"
    /\ call.outcome.kind = "return"
    /\ call.outcome.value.success
    /\ call.outcome.value["quality_score"] = 0
    /\ call.outcome.value["total_text_lines"] = 0

=============================================================================
